---- MODULE Spec2Model ----
(***************************************************************************)
(* DRM PRIME buffer sharing core (drivers/gpu/drm/drm_prime.c).            *)
(*                                                                         *)
(* One DRM session (struct drm_file) with its GEM handle table, its prime  *)
(* registry (the drm_prime_member list) and the dma-bufs it exports and    *)
(* imports.  Pointers are integers: 0 is NULL, a negative value -e is      *)
(* ERR_PTR(-e), a positive value is the identity of a live object.         *)
(***************************************************************************)
EXTENDS Integers, Sequences, FiniteSets, TLC

VARIABLES
    driver,     \* dev->driver: DRIVER_PRIME, prime_export, prime_import, and whether
                \* its imports map a scatter table that its free path hands back
    open,       \* the session has not been torn down yet
    gem,        \* GEM objects: refcount, handle_count, export_dma_buf, import_attach
    idr,        \* the session's handle table: handle -> object (0 = free slot)
    head,       \* prime_fpriv->head: the registry list, first element first
    member,     \* the drm_prime_member allocations: dma_buf, handle, kfree count
    dmabuf,     \* external dma-bufs: file reference count, attachments, mappings
    fdtable,    \* descriptors installed by dma_buf_fd, in order of creation
    pc,         \* each thread's position inside drm_prime_fd_to_handle_ioctl
    loc,        \* each thread's locals of drm_prime_fd_to_handle_ioctl
    last,       \* the most recently completed call
    prev,       \* the call completed before `last`
    hist,       \* counters of driver callback invocations and results
    pages,      \* the page array handed to drm_prime_pages_to_sg
    sgt         \* what drm_prime_pages_to_sg returned for it

vars == <<driver, open, gem, idr, head, member, dmabuf, fdtable, pc, loc, last, prev, hist,
          pages, sgt>>

----------------------------------------------------------------------------
(* Bounds *)

NumBufs == 2      \* distinct external dma-buf identities
NumLocal == 1     \* GEM objects the session allocated itself
MaxImports == 2   \* Import calls that get past the registry lookup
MaxExports == 3   \* Export calls that get to the handle lookup
MaxPages == 3     \* longest page array handed to drm_prime_pages_to_sg
NumPages == 3     \* distinct pages an array is made of

\* Descriptors received from other processes: one per buffer, and one more
\* that names the first buffer again.
NumFds == NumBufs + 1

Bufs == 1..NumBufs
Fds == 1..NumFds
ObjIds == 1..(NumLocal + MaxImports)
Handles == 1..(NumLocal + MaxImports)
\* Registry entries ever allocated: one per Import, and one more for a driver
\* that calls drm_prime_insert_fd_handle_mapping itself.
MemberIds == 1..(MaxImports + 1)
Threads == {1, 2}
PageIds == 1..NumPages
PageArrays == UNION {[1..n -> PageIds] : n \in 1..MaxPages}

(* errno values *)
ENOENT == 2
EIO == 5
EBADF == 9
ENOMEM == 12
EINVAL == 22
EMFILE == 24
ENOSYS == 38

NULL == 0

PAGE_SIZE == 4096

(* include/linux/err.h *)
ERR_PTR(e) == e
PTR_ERR(p) == p
IS_ERR(p) == p < 0
IS_ERR_OR_NULL(p) == p = NULL \/ IS_ERR(p)

----------------------------------------------------------------------------
(* The transport subsystem (dma-buf) *)

\* The buffer a received descriptor names; several descriptors name one buffer.
FdBuf(fd) == ((fd - 1) % NumBufs) + 1

\* References the descriptors themselves hold on buffer b.
InitRefs(b) == Cardinality({fd \in Fds : FdBuf(fd) = b})

\* dma_buf_get: the buffer behind a descriptor, or ERR_PTR(-EBADF); the caller
\* adds the reference with dma_buf_ref.
dma_buf_get(fd) == IF fd \in Fds THEN FdBuf(fd) ELSE ERR_PTR(-EBADF)

dma_buf_ref(db, b) == [db EXCEPT ![b].refs = @ + 1]

dma_buf_put(db, b) == [db EXCEPT ![b].refs = @ - 1]

\* Each buffer logs the unmap and detach calls made on it, in order.
dma_buf_unmap_attachment(db, b) ==
    [db EXCEPT ![b].mapped = @ - 1, ![b].log = Append(@, "unmap")]

dma_buf_detach(db, b) ==
    [db EXCEPT ![b].attached = @ - 1, ![b].log = Append(@, "detach")]

\* dma_buf_fd: a new descriptor for a dma-buf, or a negative errno.
dma_buf_fd(p, ok) ==
    IF IS_ERR_OR_NULL(p) THEN -EINVAL
    ELSE IF ~ok THEN -EMFILE
    ELSE NumFds + Len(fdtable) + 1

----------------------------------------------------------------------------
(* drm_prime.c: helper to clean up a GEM/prime object *)

\* Mutant: the attachment is detached before its mapping is released.
destroy_detaches_first(db, attach, sg) ==
    LET detached == dma_buf_detach(db, attach)
    IN  IF sg THEN dma_buf_unmap_attachment(detached, attach) ELSE detached

drm_prime_gem_destroy(db, attach, sg) ==
    LET unmapped == IF sg THEN dma_buf_unmap_attachment(db, attach) ELSE db
    IN  dma_buf_detach(unmapped, attach)

----------------------------------------------------------------------------
(* drm_prime.c: drm_prime_pages_to_sg *)

\* The result before the call: no table, nothing allocated.
NoSg == [done |-> FALSE, sg |-> NULL, sgl |-> <<>>, nents |-> 0,
         kzalloc |-> 0, kfree |-> 0]

\* A scatterlist entry as sg_alloc_table leaves it: zeroed.
NoSegment == [page |-> NULL, offset |-> 0, length |-> 0]

\* sg_alloc_table: nents zeroed entries, or -ENOMEM with no entry.
sg_alloc_table(nents, ok) ==
    IF ok THEN [ret |-> 0, sgl |-> [i \in 1..nents |-> NoSegment], nents |-> nents]
    ELSE [ret |-> -ENOMEM, sgl |-> <<>>, nents |-> 0]

sg_set_page(page, len, offset) == [page |-> page, offset |-> offset, length |-> len]

\* Mutant: the loop stops one entry short of nr_pages.
set_pages_stops_early(sgl, array, nr_pages) ==
    [i \in 1..Len(sgl) |-> IF i <= nr_pages - 1
                           THEN sg_set_page(array[i], PAGE_SIZE, 0)
                           ELSE sgl[i]]

\* Lines 117-118: for_each_sg over the first nr_pages entries, entry i
\* (counted from 0 in the source, from 1 here) taking page i of the array.
set_pages(sgl, array, nr_pages) ==
    [i \in 1..Len(sgl) |-> IF i <= nr_pages
                           THEN sg_set_page(array[i], PAGE_SIZE, 0)
                           ELSE sgl[i]]

\* Lines 102-124.  okz: kzalloc of the table header succeeds; okt:
\* sg_alloc_table succeeds.  Both failures end at `out`, which frees the
\* header (kfree of NULL frees nothing) and returns NULL.
drm_prime_pages_to_sg(array, nr_pages, okz, okt) ==
    IF ~okz
    THEN [NoSg EXCEPT !.done = TRUE]
    ELSE LET t == sg_alloc_table(nr_pages, okt)
         IN  IF t.ret # 0
             THEN [NoSg EXCEPT !.done = TRUE, !.kzalloc = 1, !.kfree = 1]
             ELSE [NoSg EXCEPT !.done = TRUE, !.sg = 1, !.kzalloc = 1,
                               !.nents = t.nents,
                               !.sgl = set_pages(t.sgl, array, nr_pages)]

----------------------------------------------------------------------------
(* The GEM handle table and object reference counting (drm_gem.c, drmP.h). *)
(* W is the pair [gem, dmabuf]: freeing an imported object reaches the     *)
(* dma-buf through drm_prime_gem_destroy.                                  *)

NoObj == [st |-> "none", refcount |-> 0, handle_count |-> 0,
          export_dma_buf |-> NULL, import_attach |-> NULL, sg |-> FALSE,
          destroys |-> 0]

drm_gem_object_free(W, o) ==
    LET g == W.gem[o]
    IN  [gem |-> [W.gem EXCEPT ![o].st = "freed",
                               ![o].destroys = IF g.import_attach # NULL THEN @ + 1 ELSE @],
         dmabuf |-> IF g.import_attach # NULL
                    THEN drm_prime_gem_destroy(W.dmabuf, g.import_attach, g.sg)
                    ELSE W.dmabuf]

drm_gem_object_reference(W, o) == [W EXCEPT !.gem[o].refcount = @ + 1]

drm_gem_object_unreference_unlocked(W, o) ==
    LET W1 == [W EXCEPT !.gem[o].refcount = @ - 1]
    IN  IF W1.gem[o].refcount = 0 THEN drm_gem_object_free(W1, o) ELSE W1

drm_gem_object_handle_unreference_unlocked(W, o) ==
    IF W.gem[o].handle_count = 0 THEN W
    ELSE drm_gem_object_unreference_unlocked(
             [W EXCEPT !.gem[o].handle_count = @ - 1], o)

\* The handle drm_gem_handle_create hands out: the lowest free one.
FreeHandle(table) ==
    CHOOSE h \in Handles : table[h] = 0 /\ \A k \in Handles : k < h => table[k] # 0

\* drm_gem_object_lookup: the object a handle names, or NULL.
drm_gem_object_lookup(table, h) == IF h \in Handles THEN table[h] ELSE NULL

\* A handle whose object has been freed: using it is a use after free.
Dangling(h) == h \in Handles /\ idr[h] # 0 /\ gem[idr[h]].st = "freed"

----------------------------------------------------------------------------
(* drm_prime.c: the registry *)

NoMember == [st |-> "none", dma_buf |-> NULL, handle |-> 0, kfree |-> 0]

RECURSIVE LookupFrom(_, _, _)
LookupFrom(list, mem, dma_buf) ==
    IF list = <<>> THEN [ret |-> -ENOENT, handle |-> 0]
    ELSE IF mem[Head(list)].dma_buf = dma_buf
         THEN [ret |-> 0, handle |-> mem[Head(list)].handle]
         ELSE LookupFrom(Tail(list), mem, dma_buf)

\* Mutant: the scan starts behind the first entry.
lookup_skips_first(list, mem, dma_buf) ==
    IF list = <<>> THEN [ret |-> -ENOENT, handle |-> 0]
    ELSE LookupFrom(Tail(list), mem, dma_buf)

\* Mutant: the scan compares the entry itself with the buffer and never matches.
lookup_never_matches(list, mem, dma_buf) == [ret |-> -ENOENT, handle |-> 0]

\* Mutant: the scan stops at the first entry whatever buffer it names.
lookup_any_buffer(list, mem, dma_buf) ==
    IF list = <<>> THEN [ret |-> -ENOENT, handle |-> 0]
    ELSE [ret |-> 0, handle |-> mem[Head(list)].handle]

\* Mutant: the scan stores the handle it found and falls through to the
\* return of -ENOENT.
lookup_reports_miss(list, mem, dma_buf) ==
    [LookupFrom(list, mem, dma_buf) EXCEPT !.ret = -ENOENT]

drm_prime_lookup_fd_handle_mapping(list, mem, dma_buf) ==
    LookupFrom(list, mem, dma_buf)

\* Mutant: the walk stops at the first entry that matches.
remove_first_match_only(list, mem, dma_buf) ==
    LET hits == {j \in 1..Len(list) : mem[list[j]].dma_buf = dma_buf}
    IN  {list[i] : i \in {j \in hits : \A k \in hits : j <= k}}

\* The entries drm_prime_remove_fd_handle_mapping unlinks and frees.
RemoveMatches(list, mem, dma_buf) ==
    {list[i] : i \in {j \in 1..Len(list) : mem[list[j]].dma_buf = dma_buf}}

\* Mutant: the walk stops one entry short of the end of the list.
destroy_stops_early(list) == {list[i] : i \in 1..(Len(list) - 1)}

\* The entries drm_prime_destroy_file_private unlinks and frees.
DestroyMatches(list) == {list[i] : i \in 1..Len(list)}

\* list_del of every entry in `gone`, the others keeping their order.
ListDel(list, gone) == SelectSeq(list, LAMBDA m : m \notin gone)

\* kfree of every entry in `gone`.
KFree(mem, gone) ==
    [m \in MemberIds |-> IF m \in gone
                         THEN [mem[m] EXCEPT !.st = "freed", !.kfree = @ + 1]
                         ELSE mem[m]]

\* kmalloc: the next allocation that has never been handed out.
NewMember(mem) == CHOOSE m \in MemberIds : mem[m].st = "none" /\
                      \A k \in MemberIds : k < m => mem[k].st # "none"

----------------------------------------------------------------------------
(* Calls and their records *)

NoCall == [op |-> "none", arg |-> 0, buf |-> 0, ret |-> 0, out |-> 0,
           fault |-> "none", cb |-> 0, obj |-> 0, newh |-> 0,
           pre_head |-> <<>>, pre_refs |-> 0]

NoLoc == [fd |-> 0, dma_buf |-> 0, obj |-> 0, handle |-> 0, member |-> 0,
          next |-> <<>>, pre_head |-> <<>>, pre_refs |-> 0]

Quiescent == \A t \in Threads : pc[t] = "idle"

\* `prev` keeps, of the call before the last one, the buffer, the handle and
\* the callback count when it was an Import in which no step failed.
Complete(rec) == /\ last' = rec
                 /\ prev' = IF last.op = "import" /\ last.fault = "none"
                            THEN [NoCall EXCEPT !.op = "import", !.buf = last.buf,
                                                !.out = last.out, !.cb = last.cb]
                            ELSE NoCall

Return(t, rec) == /\ pc' = [pc EXCEPT ![t] = "idle"]
                  /\ loc' = [loc EXCEPT ![t] = NoLoc]
                  /\ Complete(rec)

SessionInit ==
    /\ driver \in [prime : BOOLEAN, export : BOOLEAN, import : BOOLEAN, sg : BOOLEAN]
    /\ open = TRUE
    /\ gem = [o \in ObjIds |->
                IF o <= NumLocal
                THEN [NoObj EXCEPT !.st = "live", !.refcount = 1, !.handle_count = 1]
                ELSE NoObj]
    /\ idr = [h \in Handles |-> IF h <= NumLocal THEN h ELSE 0]
    /\ head = <<>>
    /\ member = [m \in MemberIds |-> NoMember]
    /\ dmabuf = [b \in Bufs |-> [refs |-> InitRefs(b), attached |-> 0, mapped |-> 0,
                                 log |-> <<>>]]
    /\ fdtable = <<>>
    /\ pc = [t \in Threads |-> "idle"]
    /\ loc = [t \in Threads |-> NoLoc]
    /\ last = NoCall
    /\ prev = NoCall
    /\ hist = [import_started |-> 0,
               export_calls |-> 0,
               export_cb |-> [o \in ObjIds |-> 0],
               export_cb_bad |-> [o \in ObjIds |-> 0],
               export_ok |-> [o \in ObjIds |-> 0],
               wrapper0 |-> [o \in ObjIds |-> NULL],
               wrappers |-> 0,
               fds |-> [o \in ObjIds |-> {}]]

Init ==
    /\ SessionInit
    /\ pages = <<>>
    /\ sgt = NoSg

----------------------------------------------------------------------------
(* The driver callbacks (dev->driver->prime_import, prime_export) *)

\* The error a failing driver callback reports.
DriverErr == -EIO

\* The object a successful prime_import allocates: the next unused one.
NewObj(g) == CHOOSE o \in ObjIds : g[o].st = "none" /\
                 \A k \in ObjIds : k < o => g[k].st # "none"

\* prime_import: a new object attached to dma_buf (mapped when sg), an error
\* pointer, or NULL.
prime_import(g, res) ==
    CASE res = "ok" -> NewObj(g)
      [] res = "err" -> ERR_PTR(DriverErr)
      [] res = "null" -> NULL

\* prime_export: a new dma-buf wrapping the object, an error pointer, or NULL.
prime_export(res) ==
    CASE res = "ok" -> NumBufs + hist.wrappers + 1
      [] res = "err" -> ERR_PTR(DriverErr)
      [] res = "null" -> NULL

CallbackResults == {"ok", "err", "null"}

\* drm_gem_handle_create: a handle for obj, holding a reference and a handle
\* count on it; or -ENOMEM with nothing changed.
drm_gem_handle_create(W, table, obj, ok) ==
    IF ok
    THEN LET h == FreeHandle(table)
         IN  [ret |-> 0, handle |-> h,
              table |-> [table EXCEPT ![h] = obj],
              W |-> [W EXCEPT !.gem[obj].refcount = @ + 1,
                              !.gem[obj].handle_count = @ + 1]]
    ELSE [ret |-> -ENOMEM, handle |-> 0, table |-> table, W |-> W]

----------------------------------------------------------------------------
(* drm_prime_fd_to_handle_ioctl (Import), one action per step between the  *)
(* calls it makes into the registry, the driver and the handle table.      *)

\* Mutant: the error path returns without dropping the reference.
fail_put_keeps_reference(db, dma_buf) == db

\* fail_put: the reference dma_buf_get took is dropped.
fail_put(db, dma_buf) == dma_buf_put(db, dma_buf)

\* fail: the handle reference on the imported object is dropped, then fail_put.
fail(W, obj, dma_buf) ==
    LET W1 == drm_gem_object_handle_unreference_unlocked(W, obj)
    IN  [W1 EXCEPT !.dmabuf = fail_put(W1.dmabuf, dma_buf)]

\* Lines 54-70: the capability checks, dma_buf_get, the registry lookup and
\* the return of a registered handle.
fd_to_handle_lookup(t, fd) ==
    /\ UNCHANGED <<pages, sgt>>
    /\ open
    /\ pc[t] = "idle"
    /\ LET call == [NoCall EXCEPT !.op = "import", !.arg = fd]
       IN  IF ~driver.prime
           THEN /\ Return(t, [call EXCEPT !.ret = -EINVAL, !.fault = "unsupported"])
                /\ UNCHANGED <<driver, open, gem, idr, head, member, dmabuf, fdtable, hist>>
           ELSE IF ~driver.import
           THEN /\ Return(t, [call EXCEPT !.ret = -ENOSYS, !.fault = "unsupported"])
                /\ UNCHANGED <<driver, open, gem, idr, head, member, dmabuf, fdtable, hist>>
           ELSE LET dma_buf == dma_buf_get(fd)
                IN  IF IS_ERR(dma_buf)
                    THEN /\ Return(t, [call EXCEPT !.ret = PTR_ERR(dma_buf), !.fault = "fd"])
                         /\ UNCHANGED <<driver, open, gem, idr, head, member, dmabuf,
                                        fdtable, hist>>
                    ELSE LET got == dma_buf_ref(dmabuf, dma_buf)
                             r == drm_prime_lookup_fd_handle_mapping(head, member, dma_buf)
                             seen == [call EXCEPT !.buf = dma_buf, !.pre_head = head,
                                                  !.pre_refs = dmabuf[dma_buf].refs]
                         IN  IF r.ret = 0
                             THEN /\ dmabuf' = dma_buf_put(got, dma_buf)
                                  /\ Return(t, [seen EXCEPT !.ret = 0, !.out = r.handle])
                                  /\ UNCHANGED <<driver, open, gem, idr, head, member,
                                                 fdtable, hist>>
                             ELSE /\ hist.import_started < MaxImports
                                  /\ dmabuf' = got
                                  /\ pc' = [pc EXCEPT ![t] = "prime_import"]
                                  /\ loc' = [loc EXCEPT ![t] =
                                               [NoLoc EXCEPT !.fd = fd, !.dma_buf = dma_buf,
                                                             !.pre_head = head,
                                                             !.pre_refs = dmabuf[dma_buf].refs]]
                                  /\ hist' = [hist EXCEPT !.import_started = @ + 1]
                                  /\ UNCHANGED <<driver, open, gem, idr, head, member,
                                                 fdtable, last, prev>>

\* The record of the Import call thread t is in.
ImportCall(t) == [NoCall EXCEPT !.op = "import", !.arg = loc[t].fd,
                                !.buf = loc[t].dma_buf, !.cb = 1,
                                !.pre_head = loc[t].pre_head,
                                !.pre_refs = loc[t].pre_refs]

\* Lines 72-77: never seen this one, need to import.
fd_to_handle_import(t, res) ==
    /\ UNCHANGED <<pages, sgt>>
    /\ pc[t] = "prime_import"
    /\ LET dma_buf == loc[t].dma_buf
           obj == prime_import(gem, res)
       IN  /\ hist' = hist
           /\ IF IS_ERR_OR_NULL(obj)
              THEN /\ dmabuf' = fail_put(dmabuf, dma_buf)
                   /\ Return(t, [ImportCall(t) EXCEPT !.ret = PTR_ERR(obj),
                                    !.fault = IF res = "null" THEN "cb_null" ELSE "cb_err"])
                   /\ UNCHANGED <<driver, open, gem, idr, head, member, fdtable>>
              ELSE /\ gem' = [gem EXCEPT ![obj] =
                                [NoObj EXCEPT !.st = "live", !.refcount = 1,
                                              !.import_attach = dma_buf,
                                              !.sg = driver.sg]]
                   /\ dmabuf' = [dmabuf EXCEPT ![dma_buf].attached = @ + 1,
                                               ![dma_buf].mapped = IF driver.sg THEN @ + 1 ELSE @]
                   /\ pc' = [pc EXCEPT ![t] = "handle_create"]
                   /\ loc' = [loc EXCEPT ![t].obj = obj]
                   /\ UNCHANGED <<driver, open, idr, head, member, fdtable, last, prev>>

\* Lines 79-82: the handle for the imported object; the reference prime_import
\* returned is dropped whether or not the handle was created.
fd_to_handle_create(t, ok) ==
    /\ UNCHANGED <<pages, sgt>>
    /\ pc[t] = "handle_create"
    /\ LET dma_buf == loc[t].dma_buf
           obj == loc[t].obj
           c == drm_gem_handle_create([gem |-> gem, dmabuf |-> dmabuf], idr, obj, ok)
           W1 == drm_gem_object_unreference_unlocked(c.W, obj)
       IN  /\ idr' = c.table
           /\ gem' = W1.gem
           /\ IF c.ret # 0
              THEN /\ dmabuf' = fail_put(W1.dmabuf, dma_buf)
                   /\ Return(t, [ImportCall(t) EXCEPT !.ret = c.ret, !.fault = "handle",
                                                      !.obj = obj])
                   /\ UNCHANGED <<driver, open, head, member, fdtable, hist>>
              ELSE /\ dmabuf' = W1.dmabuf
                   /\ pc' = [pc EXCEPT ![t] = "insert"]
                   /\ loc' = [loc EXCEPT ![t].handle = c.handle]
                   /\ UNCHANGED <<driver, open, head, member, fdtable, last, prev, hist>>

\* Lines 84-87 with drm_prime_insert_fd_handle_mapping lines 159-165: the
\* entry is allocated and filled in, and list_add reads the list's first entry.
fd_to_handle_insert(t, ok) ==
    /\ UNCHANGED <<pages, sgt>>
    /\ pc[t] = "insert"
    /\ LET dma_buf == loc[t].dma_buf
           obj == loc[t].obj
       IN  IF ~ok
           THEN LET W1 == fail([gem |-> gem, dmabuf |-> dmabuf], obj, dma_buf)
                IN  /\ gem' = W1.gem
                    /\ dmabuf' = W1.dmabuf
                    /\ Return(t, [ImportCall(t) EXCEPT !.ret = -ENOMEM, !.fault = "insert",
                                                       !.obj = obj, !.newh = loc[t].handle])
                    /\ UNCHANGED <<driver, open, idr, head, member, fdtable, hist>>
           ELSE LET m == NewMember(member)
                IN  /\ member' = [member EXCEPT ![m] =
                                    [NoMember EXCEPT !.st = "live", !.dma_buf = dma_buf,
                                                     !.handle = loc[t].handle]]
                    /\ pc' = [pc EXCEPT ![t] = "list_add"]
                    /\ loc' = [loc EXCEPT ![t].member = m, ![t].next = head]
                    /\ UNCHANGED <<driver, open, gem, idr, head, dmabuf, fdtable,
                                   last, prev, hist>>

\* Lines 165-166 and 89-90: list_add makes the new entry the first one, in
\* front of the entries it read; then the handle is returned.
fd_to_handle_return(t) ==
    /\ UNCHANGED <<pages, sgt>>
    /\ pc[t] = "list_add"
    /\ head' = <<loc[t].member>> \o loc[t].next
    /\ Return(t, [ImportCall(t) EXCEPT !.ret = 0, !.out = loc[t].handle,
                                       !.obj = loc[t].obj, !.newh = loc[t].handle])
    /\ UNCHANGED <<driver, open, gem, idr, member, dmabuf, fdtable, hist>>

drm_prime_fd_to_handle_ioctl(t) ==
    \/ \E fd \in 0..NumFds : fd_to_handle_lookup(t, fd)
    \/ \E res \in CallbackResults : fd_to_handle_import(t, res)
    \/ \E ok \in BOOLEAN : fd_to_handle_create(t, ok)
    \/ \E ok \in BOOLEAN : fd_to_handle_insert(t, ok)
    \/ fd_to_handle_return(t)

----------------------------------------------------------------------------
(* drm_prime_handle_to_fd_ioctl (Export) *)

\* Mutant: the cached wrapper is never looked at.
export_always_wraps(obj_rec) == FALSE

\* Line 27: the object already has its export wrapper.
has_export_dma_buf(obj_rec) == obj_rec.export_dma_buf # NULL

\* Lines 40-42: the descriptor is stored in args->fd and 0 is returned.
handle_to_fd_return(W, obj, call, fdok) ==
    LET p == W.gem[obj].export_dma_buf
        fd == dma_buf_fd(p, fdok)
        good == fd > 0
    IN  /\ gem' = W.gem
        /\ dmabuf' = W.dmabuf
        /\ fdtable' = IF good THEN Append(fdtable, p) ELSE fdtable
        /\ Complete([call EXCEPT !.ret = 0, !.out = fd,
                                 !.fault = IF good THEN call.fault
                                           ELSE IF IS_ERR(p) THEN "stale" ELSE "fd"])
        /\ hist' = [hist EXCEPT
                      !.export_calls = @ + 1,
                      !.export_cb[obj] = @ + call.cb,
                      !.wrappers = @ + call.cb,
                      !.wrapper0[obj] = IF @ = NULL THEN p ELSE @,
                      !.export_ok[obj] = IF good THEN @ + 1 ELSE @,
                      !.fds[obj] = IF good THEN @ \cup {fd} ELSE @]

\* Mutant: the driver's export callback is called without being tested.
checks_skip_prime_export(d) == IF ~d.prime THEN -EINVAL ELSE 0

\* Lines 17-21: the driver has DRIVER_PRIME and a prime_export callback.
handle_to_fd_checks(d) ==
    IF ~d.prime THEN -EINVAL
    ELSE IF ~d.export THEN -ENOSYS
    ELSE 0

drm_prime_handle_to_fd_ioctl(handle, res, fdok) ==
    /\ open
    /\ Quiescent
    /\ ~Dangling(handle)
    /\ UNCHANGED <<driver, open, idr, head, member, pc, loc, pages, sgt>>
    /\ LET call == [NoCall EXCEPT !.op = "export", !.arg = handle]
           checked == handle_to_fd_checks(driver)
       IN  IF checked # 0
           THEN /\ Complete([call EXCEPT !.ret = checked, !.fault = "unsupported"])
                /\ UNCHANGED <<gem, dmabuf, fdtable, hist>>
           ELSE LET obj == drm_gem_object_lookup(idr, handle)
                IN  IF obj = NULL
                    THEN /\ Complete([call EXCEPT !.ret = -ENOENT, !.fault = "nohandle"])
                         /\ UNCHANGED <<gem, dmabuf, fdtable, hist>>
                    ELSE /\ hist.export_calls < MaxExports
                         /\ LET W0 == drm_gem_object_reference(
                                          [gem |-> gem, dmabuf |-> dmabuf], obj)
                                found == [call EXCEPT !.obj = obj]
                            IN  IF has_export_dma_buf(W0.gem[obj])
                                THEN handle_to_fd_return(W0, obj, found, fdok)
                                ELSE LET p == prime_export(res)
                                         W1 == [W0 EXCEPT !.gem[obj].export_dma_buf = p]
                                         called == [found EXCEPT !.cb = 1]
                                     IN  IF IS_ERR_OR_NULL(W1.gem[obj].export_dma_buf)
                                         THEN LET W2 == drm_gem_object_unreference_unlocked(W1, obj)
                                              IN  /\ gem' = W2.gem
                                                  /\ dmabuf' = W2.dmabuf
                                                  /\ fdtable' = fdtable
                                                  /\ Complete([called EXCEPT
                                                       !.ret = PTR_ERR(W1.gem[obj].export_dma_buf),
                                                       !.fault = IF res = "null" THEN "cb_null"
                                                                 ELSE "cb_err"])
                                                  /\ hist' = [hist EXCEPT
                                                       !.export_calls = @ + 1,
                                                       !.export_cb[obj] = @ + 1,
                                                       !.export_cb_bad[obj] = @ + 1,
                                                       !.wrapper0[obj] = IF @ = NULL THEN p ELSE @]
                                         ELSE handle_to_fd_return(W1, obj, called, fdok)

----------------------------------------------------------------------------
(* The session's other operations *)

\* drm_gem_handle_delete: the handle leaves the table and its reference on
\* the object is dropped.
drm_gem_handle_delete(handle) ==
    /\ open
    /\ Quiescent
    /\ handle \in Handles
    /\ idr[handle] # 0
    /\ ~Dangling(handle)
    /\ LET obj == idr[handle]
           W1 == drm_gem_object_handle_unreference_unlocked(
                     [gem |-> gem, dmabuf |-> dmabuf], obj)
       IN  /\ idr' = [idr EXCEPT ![handle] = 0]
           /\ gem' = W1.gem
           /\ dmabuf' = W1.dmabuf
           /\ Complete([NoCall EXCEPT !.op = "close", !.arg = handle, !.obj = obj])
    /\ UNCHANGED <<driver, open, head, member, fdtable, pc, loc, hist, pages, sgt>>

\* Lines 155-167, called on its own: the entry is allocated, filled in and
\* made the first of the list; nothing looks for an entry of the same buffer.
drm_prime_insert_fd_handle_mapping(dma_buf, handle, ok) ==
    /\ open
    /\ Quiescent
    /\ \E m \in MemberIds : member[m].st = "none"
    /\ LET call == [NoCall EXCEPT !.op = "insert", !.arg = handle, !.buf = dma_buf]
       IN  IF ~ok
           THEN /\ Complete([call EXCEPT !.ret = -ENOMEM, !.fault = "insert"])
                /\ UNCHANGED <<head, member>>
           ELSE LET m == NewMember(member)
                IN  /\ member' = [member EXCEPT ![m] =
                                    [NoMember EXCEPT !.st = "live", !.dma_buf = dma_buf,
                                                     !.handle = handle]]
                    /\ head' = <<m>> \o head
                    /\ Complete(call)
    /\ UNCHANGED <<driver, open, gem, idr, dmabuf, fdtable, pc, loc, hist, pages, sgt>>

drm_prime_remove_fd_handle_mapping(dma_buf) ==
    /\ open
    /\ Quiescent
    /\ LET gone == RemoveMatches(head, member, dma_buf)
       IN  /\ head' = ListDel(head, gone)
           /\ member' = KFree(member, gone)
    /\ Complete([NoCall EXCEPT !.op = "remove", !.arg = dma_buf, !.buf = dma_buf,
                               !.pre_head = head])
    /\ UNCHANGED <<driver, open, gem, idr, dmabuf, fdtable, pc, loc, hist, pages, sgt>>

drm_prime_destroy_file_private ==
    /\ open
    /\ Quiescent
    /\ LET gone == DestroyMatches(head)
       IN  /\ head' = ListDel(head, gone)
           /\ member' = KFree(member, gone)
    /\ open' = FALSE
    /\ Complete([NoCall EXCEPT !.op = "teardown", !.pre_head = head])
    /\ UNCHANGED <<driver, gem, idr, dmabuf, fdtable, pc, loc, hist, pages, sgt>>

----------------------------------------------------------------------------
(* Specifications *)

\* The import side of one session, one thread: every call runs to completion
\* before the next one starts.
Next ==
    \/ drm_prime_fd_to_handle_ioctl(1)
    \/ \E handle \in {h \in Handles : idr[h] > NumLocal} : drm_gem_handle_delete(handle)
    \/ \E dma_buf \in Bufs : drm_prime_remove_fd_handle_mapping(dma_buf)
    \/ drm_prime_destroy_file_private

Spec == Init /\ [][Next]_vars

\* The export side of one session, one thread.
NextExport ==
    \/ \E handle \in {0} \cup Handles,
          res \in CallbackResults, fdok \in BOOLEAN :
           drm_prime_handle_to_fd_ioctl(handle, res, fdok)
    \/ \E handle \in Handles : drm_gem_handle_delete(handle)

SpecExport == Init /\ [][NextExport]_vars

\* Two threads of the session inside Import at once.
NextRace == \E t \in Threads : drm_prime_fd_to_handle_ioctl(t)

SpecRace == Init /\ [][NextRace]_vars

\* The registry driven through its exported functions, one call at a time.
NextRegistry ==
    \/ \E dma_buf \in Bufs, handle \in 1..(NumLocal + 1), ok \in BOOLEAN :
           drm_prime_insert_fd_handle_mapping(dma_buf, handle, ok)
    \/ \E dma_buf \in Bufs : drm_prime_remove_fd_handle_mapping(dma_buf)
    \/ drm_prime_destroy_file_private

\* The registry functions look at nothing of the driver: one driver is enough.
InitRegistry ==
    /\ Init
    /\ driver = [prime |-> TRUE, export |-> TRUE, import |-> TRUE, sg |-> TRUE]

SpecRegistry == InitRegistry /\ [][NextRegistry]_vars

\* A driver builds the scatter table of a page array.
pages_to_sg(okz, okt) ==
    /\ ~sgt.done
    /\ sgt' = drm_prime_pages_to_sg(pages, Len(pages), okz, okt)
    /\ UNCHANGED <<driver, open, gem, idr, head, member, dmabuf, fdtable, pc, loc,
                   last, prev, hist, pages>>

\* Every page array of one to MaxPages pages; the array of no page is left
\* out, sg_alloc_table being called with at least one entry.
InitSg ==
    /\ SessionInit
    /\ pages \in PageArrays
    /\ sgt = NoSg

NextSg == \E okz \in BOOLEAN, okt \in BOOLEAN : pages_to_sg(okz, okt)

SpecSg == InitSg /\ [][NextSg]_vars

----------------------------------------------------------------------------
(* Properties *)

\* The registry entries that name buffer b.
EntriesFor(list, b) == {i \in 1..Len(list) : member[list[i]].dma_buf = b}

\* The handles of the session that name a live object imported from buffer b.
HandlesFor(b) == {h \in Handles : idr[h] # 0 /\ gem[idr[h]].st = "live"
                                  /\ gem[idr[h]].import_attach = b}

\* The last two completed calls are Imports of the same buffer, and no step
\* of the first one failed.
TwoImportsOfOneBuffer ==
    /\ prev.op = "import"
    /\ last.op = "import"
    /\ prev.buf = last.buf

\* C1: Import dedup.  Of two Import calls that run one after the other on
\* descriptors of the same buffer, the first having succeeded, the second
\* succeeds too, returns the same handle and does not invoke the driver's
\* import callback: the callback runs at most once over the two calls (once
\* when the first call was the first import of the buffer).
C1_ImportDedup ==
    TwoImportsOfOneBuffer =>
        /\ last.ret = 0
        /\ last.fault = "none"
        /\ last.out = prev.out
        /\ last.cb = 0
        /\ prev.cb + last.cb <= 1

\* The first call imported buffer 1 for the first time and the second call
\* named it by its other descriptor.
C1_Witness ==
    /\ TwoImportsOfOneBuffer
    /\ prev.cb = 1
    /\ last.buf = 1
    /\ last.arg = NumFds
    /\ last.ret = 0
    /\ last.out = prev.out

\* C2: Concurrent-import race.  Once both threads have returned from Import,
\* the registry has at most one entry per buffer, and no second handle,
\* object or attachment for the buffer remains.
C2_RaceLeavesOneEntry ==
    Quiescent =>
        \A b \in Bufs :
            /\ Cardinality(EntriesFor(head, b)) <= 1
            /\ Cardinality(HandlesFor(b)) <= 1
            /\ dmabuf[b].attached <= 1
            /\ \A m \in MemberIds : member[m].st = "live" =>
                   \E i \in 1..Len(head) : head[i] = m

\* C3: Idempotent export.  Once Export has returned a descriptor for an
\* object whose export callback never failed, the callback has been invoked
\* exactly once for it; the wrapper stored on an object never changes after
\* it is first set; every descriptor returned for the object names that
\* wrapper.
C3_IdempotentExport ==
    \A o \in ObjIds :
        /\ (hist.export_ok[o] >= 1 /\ hist.export_cb_bad[o] = 0)
               => hist.export_cb[o] = 1
        /\ hist.wrapper0[o] # NULL => gem[o].export_dma_buf = hist.wrapper0[o]
        /\ \A fd \in hist.fds[o] :
               /\ fd - NumFds \in 1..Len(fdtable)
               /\ fdtable[fd - NumFds] = hist.wrapper0[o]

\* Two Exports of one object have each returned a descriptor.
C3_Witness ==
    \E o \in ObjIds :
        /\ hist.export_ok[o] >= 2
        /\ hist.export_cb_bad[o] = 0
        /\ Cardinality(hist.fds[o]) >= 2

\* An Import that got past the registry lookup has returned after its step 3
\* (driver callback), 4 (handle creation) or 5 (registry insert) failed.
ImportFailedAfterLookup ==
    /\ Quiescent
    /\ last.op = "import"
    /\ last.fault \in {"cb_err", "cb_null", "handle", "insert"}

\* C4: Rollback completeness.  When Import returns after a failure of step
\* 3, 4 or 5, the registry is the one the call found, it has no entry for the
\* buffer, and the buffer's reference count is what it was before the call.
C4_RollbackComplete ==
    ImportFailedAfterLookup =>
        /\ head = last.pre_head
        /\ EntriesFor(head, last.buf) = {}
        /\ dmabuf[last.buf].refs = last.pre_refs

\* The registry insert failed while the registry held another buffer's entry.
C4_Witness ==
    /\ ImportFailedAfterLookup
    /\ last.fault = "insert"
    /\ head # <<>>
    /\ dmabuf[last.buf].refs = last.pre_refs

\* C5: When the registry insert fails, Import returns -ENOMEM, the handle
\* created in step 4 no longer resolves to an object, and the imported object
\* has been destroyed (drm_prime_gem_destroy has run for it).
C5_InsertFailureDeletesHandle ==
    (Quiescent /\ last.op = "import" /\ last.fault = "insert") =>
        /\ last.ret = -ENOMEM
        /\ drm_gem_object_lookup(idr, last.newh) = NULL
        /\ gem[last.obj].st = "freed"
        /\ gem[last.obj].destroys = 1

\* C6: Registry uniqueness.  Between calls the registry has at most one entry
\* per buffer.
C6_RegistryUnique ==
    Quiescent => \A b \in Bufs : Cardinality(EntriesFor(head, b)) <= 1

\* A buffer has been imported, removed from the registry and imported again.
C6_Witness ==
    /\ Quiescent
    /\ last.op = "import"
    /\ last.fault = "none"
    /\ last.cb = 1
    /\ Cardinality(EntriesFor(head, last.buf)) = 1
    /\ \E m \in MemberIds : member[m].st = "freed" /\ member[m].dma_buf = last.buf

\* C7: No external-buffer reference is leaked.  Once the session is torn
\* down and no imported object is left alive, every buffer's reference count
\* is back to the references the descriptors hold.
C7_NoReferenceLeak ==
    (~open /\ \A o \in ObjIds : gem[o].import_attach # NULL => gem[o].st = "freed")
        => \A b \in Bufs : dmabuf[b].refs = InitRefs(b)

\* C8: No error is swallowed.  A call in which the driver callback failed or
\* returned NULL does not return success.
C8_CallbackFailureIsReported ==
    last.fault \in {"cb_err", "cb_null"} => last.ret # 0

\* C9: Teardown completeness.  After drm_prime_destroy_file_private the
\* registry is empty, every entry ever allocated has been freed exactly once,
\* and the lookup of every buffer finds nothing.
C9_TeardownComplete ==
    last.op = "teardown" =>
        /\ head = <<>>
        /\ \A m \in MemberIds : member[m].st # "none" =>
               member[m].st = "freed" /\ member[m].kfree = 1
        /\ \A b \in Bufs : drm_prime_lookup_fd_handle_mapping(head, member, b).ret = -ENOENT

\* Teardown found two entries after an earlier entry had been removed.
C9_Witness ==
    /\ last.op = "teardown"
    /\ Len(last.pre_head) >= 1
    /\ \E m \in MemberIds :
           /\ member[m].st = "freed"
           /\ \A i \in 1..Len(last.pre_head) : last.pre_head[i] # m

\* The last two completed calls are Imports of two different buffers in which
\* no step failed; the first invoked the driver, and the second found no entry
\* for its buffer.
TwoImportsOfTwoBuffers ==
    /\ prev.op = "import"
    /\ prev.cb = 1
    /\ last.op = "import"
    /\ last.fault = "none"
    /\ last.buf # prev.buf
    /\ EntriesFor(last.pre_head, last.buf) = {}

\* C10: Importing two buffers yields two handles, two invocations of the
\* driver's import callback and two registry entries, one per buffer.
C10_DistinctBuffersDistinctHandles ==
    TwoImportsOfTwoBuffers =>
        /\ last.ret = 0
        /\ last.cb = 1
        /\ last.out # prev.out
        /\ \A b \in {prev.buf, last.buf} : Cardinality(EntriesFor(head, b)) = 1
        /\ drm_prime_lookup_fd_handle_mapping(head, member, prev.buf).handle = prev.out
        /\ drm_prime_lookup_fd_handle_mapping(head, member, last.buf).handle = last.out

C10_Witness ==
    /\ TwoImportsOfTwoBuffers
    /\ Quiescent
    /\ Len(head) = 2
    /\ last.out # prev.out

\* C11: When dma_buf_fd fails, Export returns that error; Export never returns
\* success while the descriptor it reports in args->fd is an error value.
C11_DescriptorFailureIsReported ==
    last.op = "export" =>
        /\ last.fault = "fd" => (last.ret < 0 /\ last.ret = last.out)
        /\ last.ret = 0 => ~(last.out < 0)

\* The outcome lines 17-25 give an Export of `handle`: the error of the first
\* check that fails, or 0 when the call gets to the cached-wrapper test.
ExportPrecheck(handle) ==
    IF ~driver.prime THEN -EINVAL
    ELSE IF ~driver.export THEN -ENOSYS
    ELSE IF handle \notin Handles \/ idr[handle] = 0 THEN -ENOENT
    ELSE 0

\* An Export step that ends in one of the early errors of lines 17-25.
ExportRejectedStep ==
    /\ last'.op = "export"
    /\ ExportPrecheck(last'.arg) # 0

\* C12: Export returns the unsupported error when the feature is off or the
\* driver has no export callback, and the not-found error when the handle
\* does not resolve; in each case the callback is not invoked, and no object
\* reference, wrapper or descriptor is left behind.
C12_ExportErrorConditions ==
    /\ [](last.op = "export" /\ ExportPrecheck(last.arg) # 0 =>
            /\ last.ret = ExportPrecheck(last.arg)
            /\ last.cb = 0
            /\ last.fault = IF last.ret = -ENOENT THEN "nohandle" ELSE "unsupported")
    /\ [][ExportRejectedStep => UNCHANGED <<gem, idr, dmabuf, fdtable, hist>>]_vars

C12_Witness ==
    /\ last.op = "export"
    /\ last.ret = -ENOENT
    /\ last.arg = 1
    /\ gem[1].export_dma_buf # NULL
    /\ hist.export_cb[1] >= 1

\* C13: A successful drm_prime_pages_to_sg on an array of N pages returns a
\* table of exactly N segments, segment i naming page i with offset 0 and the
\* length of one page.
C13_ScatterTableMatchesPages ==
    (sgt.done /\ sgt.sg # NULL) =>
        /\ sgt.nents = Len(pages)
        /\ Len(sgt.sgl) = Len(pages)
        /\ \A i \in 1..Len(pages) :
               /\ sgt.sgl[i].page = pages[i]
               /\ sgt.sgl[i].offset = 0
               /\ sgt.sgl[i].length = PAGE_SIZE

C13_Witness ==
    /\ sgt.done
    /\ sgt.sg # NULL
    /\ Len(pages) = MaxPages
    /\ sgt.nents = MaxPages
    /\ pages[1] # pages[MaxPages]
    /\ sgt.sgl[MaxPages].page = pages[MaxPages]

\* Thread t is inside drm_prime_insert_fd_handle_mapping: it has filled in its
\* entry and read the list, and has not yet written the list's first pointer.
InRegistryOp(t) == pc[t] = "list_add"

\* C14: Registry operations of one session exclude one another: no two
\* threads are inside a registry operation at the same time.
C14_RegistryMutualExclusion ==
    \A t1 \in Threads, t2 \in Threads :
        t1 # t2 => ~(InRegistryOp(t1) /\ InRegistryOp(t2))

\* The handle the registry holds for buffer b: that of its first entry for b.
RegisteredHandle(list, b) ==
    member[list[CHOOSE i \in EntriesFor(list, b) :
                    \A j \in EntriesFor(list, b) : i <= j]].handle

\* C15: An Import of a buffer the registry already holds returns the
\* registered handle without invoking the driver and without creating a
\* handle; the registry, the handle table, the objects and the buffer's
\* reference count are what they were before the call.
C15_ImportHitChangesNothing ==
    [][\A b \in Bufs :
          (pc[1] = "idle" /\ EntriesFor(head, b) # {}) =>
              /\ ~(pc'[1] = "prime_import" /\ loc'[1].dma_buf = b)
              /\ (pc'[1] = "idle" /\ last'.op = "import" /\ last'.buf = b) =>
                    /\ last'.ret = 0
                    /\ last'.cb = 0
                    /\ last'.newh = 0
                    /\ last'.out = RegisteredHandle(head, b)
                    /\ UNCHANGED <<head, member, idr, gem, dmabuf, fdtable, hist>>]_vars

C15_Witness ==
    /\ last.op = "import"
    /\ last.ret = 0
    /\ last.cb = 0
    /\ Len(last.pre_head) = 2
    /\ member[last.pre_head[2]].dma_buf = last.buf
    /\ last.out = member[last.pre_head[2]].handle
    /\ head = last.pre_head
    /\ dmabuf[last.buf].refs = last.pre_refs

\* The calls of drm_prime_gem_destroy made so far for attachments to buffer b:
\* one per freed object that was imported from b.
DestroyCalls(b) ==
    Cardinality({o \in ObjIds : gem[o].import_attach = b /\ gem[o].destroys >= 1})

\* What one call of drm_prime_gem_destroy does to a buffer, in order.
DestroyBlock == IF driver.sg THEN <<"unmap", "detach">> ELSE <<"detach">>

\* C16: Every call of drm_prime_gem_destroy detaches the attachment exactly
\* once; with a scatter table it unmaps exactly once, before the detach, and
\* without one it does not unmap.
C16_DestroyOrdering ==
    /\ \A o \in ObjIds : gem[o].destroys <= 1
    /\ \A b \in Bufs :
           /\ Len(dmabuf[b].log) = DestroyCalls(b) * Len(DestroyBlock)
           /\ \A k \in 0..(DestroyCalls(b) - 1) :
                  SubSeq(dmabuf[b].log, k * Len(DestroyBlock) + 1,
                         (k + 1) * Len(DestroyBlock)) = DestroyBlock

C16_Witness ==
    /\ driver.sg
    /\ \E b \in Bufs :
           /\ DestroyCalls(b) = 2
           /\ dmabuf[b].log = <<"unmap", "detach", "unmap", "detach">>

\* C17: drm_prime_remove_fd_handle_mapping unlinks and frees every entry of
\* the buffer, duplicates included, and leaves the entries of other buffers on
\* the list, in their order and untouched; afterwards a lookup of the buffer
\* finds nothing.
C17_RemoveAllMatching ==
    last.op = "remove" =>
        LET pre == last.pre_head
            b == last.buf
        IN  /\ head = SelectSeq(pre, LAMBDA m : member[m].dma_buf # b)
            /\ \A i \in 1..Len(pre) :
                   IF member[pre[i]].dma_buf = b
                   THEN member[pre[i]].st = "freed" /\ member[pre[i]].kfree = 1
                   ELSE member[pre[i]].st = "live" /\ member[pre[i]].kfree = 0
            /\ drm_prime_lookup_fd_handle_mapping(head, member, b).ret = -ENOENT
            /\ \A c \in Bufs \ {b} :
                   drm_prime_lookup_fd_handle_mapping(head, member, c) =
                       drm_prime_lookup_fd_handle_mapping(pre, member, c)

C17_Witness ==
    /\ last.op = "remove"
    /\ Len(last.pre_head) = 3
    /\ member[last.pre_head[1]].dma_buf = last.buf
    /\ member[last.pre_head[2]].dma_buf # last.buf
    /\ member[last.pre_head[3]].dma_buf = last.buf
    /\ head = <<last.pre_head[2]>>

\* C18: An object's export_dma_buf is NULL or a valid dma-buf, never an error
\* pointer; after a failed prime_export it is NULL, so that a later Export
\* invokes the callback again.
C18_WrapperFieldAbsentOrValid ==
    /\ \A o \in ObjIds : ~IS_ERR(gem[o].export_dma_buf)
    /\ (last.op = "export" /\ last.fault \in {"cb_err", "cb_null"}) =>
           gem[last.obj].export_dma_buf = NULL

\* C19: Export balances the reference drm_gem_object_lookup took: it is
\* dropped, or kept for the wrapper the call created; an object whose
\* callback never failed holds, besides its handles' references, one
\* reference when it has a wrapper and none when it has not.
C19_ExportReferenceBalanced ==
    \A o \in ObjIds :
        (gem[o].st = "live" /\ hist.export_cb_bad[o] = 0) =>
            gem[o].refcount - gem[o].handle_count =
                IF gem[o].export_dma_buf # NULL THEN 1 ELSE 0

====
